---- MODULE Spec2Model ----
(***************************************************************************)
(* Model of the VersaClock 5P49V driver (src/src/main.rs): the divider     *)
(* arithmetic and register image of Pll5p49v::write_config, the VCO        *)
(* calibration handshake of Pll5p49v::calibrate_vco, and the boot flow of  *)
(* main.                                                                   *)
(*                                                                         *)
(* TLC integers are 32 bits wide, so a u32 is a little-endian pair of      *)
(* 16-bit limbs and a u64 is a little-endian 4-tuple of 16-bit limbs.      *)
(***************************************************************************)
EXTENDS Integers, Sequences, FiniteSets, TLC

VARIABLES pc, args, locals, trace, rc_config, rc_cal, resp_buff, vco_index,
          led, calls

vars == <<pc, args, locals, trace, rc_config, rc_cal, resp_buff, vco_index,
          led, calls>>

----------------------------------------------------------------------------
(* Bounds of the model.                                                    *)

\* number of write_config calls a caller of the driver makes
MaxCalls == 2

\* number of entries of OutputList the caller draws output frequencies from
NumOutputSamples == 6

----------------------------------------------------------------------------
(* Machine integers.                                                       *)

Limb == 65536

Byte == 0 .. 255

\* a u32 from its decimal groups: billions, millions, thousands, units
MulAdd32(x, k, a) ==
  LET t1 == x[1] * k + a
      t2 == x[2] * k + (t1 \div Limb)
  IN  <<t1 % Limb, t2 % Limb>>

Dec(b, m, t, u) ==
  MulAdd32(MulAdd32(MulAdd32(<<b, 0>>, 1000, m), 1000, t), 1000, u)

Zero32 == <<0, 0>>

Zero64 == <<0, 0, 0, 0>>

\* `x as u64` of a u32
AsU64(x) == <<x[1], x[2], 0, 0>>

\* `x as u8` of a u64
AsU8(x) == x[1] % 256

\* `x as u32` of a u64
AsU32(x) == <<x[1], x[2]>>

LimbAt(x, j) == IF j \in 1 .. 4 THEN x[j] ELSE 0

\* `x << s` on u64, 0 <= s < 64: bits shifted past bit 63 are discarded
ShlU64(x, s) ==
  LET q == s \div 16
      r == s % 16
  IN  [i \in 1 .. 4 |->
         (LimbAt(x, i - q) % (2 ^ (16 - r))) * (2 ^ r)
           + (LimbAt(x, i - q - 1) \div (2 ^ (16 - r)))]

\* `x >> s` on u64, 0 <= s < 64
ShrU64(x, s) ==
  LET q == s \div 16
      r == s % 16
  IN  [i \in 1 .. 4 |->
         (LimbAt(x, i + q) \div (2 ^ r))
           + (LimbAt(x, i + q + 1) % (2 ^ r)) * (2 ^ (16 - r))]

\* One step of restoring long division per bit k .. 0 of the numerator limb
\* w: the partial remainder rh * 2^16 + rl is doubled, the bit is brought
\* down, and the divisor dh * 2^16 + dl is subtracted when it fits.  The
\* divisor is a widened u32, so the partial remainder stays below 2^33.
RECURSIVE DivBits(_, _, _, _, _, _, _)
DivBits(w, dh, dl, k, qd, rh, rl) ==
  IF k < 0 THEN <<qd, rh, rl>>
  ELSE LET bit == (w \div (2 ^ k)) % 2
           l2 == 2 * rl + bit
           h2 == 2 * rh + (l2 \div Limb)
           l == l2 % Limb
       IN  IF h2 > dh \/ (h2 = dh /\ l >= dl)
           THEN DivBits(w, dh, dl, k - 1, qd + 2 ^ k,
                        h2 - dh - (IF l < dl THEN 1 ELSE 0),
                        (l - dl + Limb) % Limb)
           ELSE DivBits(w, dh, dl, k - 1, qd, h2, l)

\* the numerator limbs j .. 1, most significant first
RECURSIVE DivLimbs(_, _, _, _, _)
DivLimbs(n, d, j, q, s) ==
  IF j = 0 THEN q
  ELSE LET t == DivBits(n[j], d[2], d[1], 15, 0, s[2], s[3])
       IN  DivLimbs(n, d, j - 1, [q EXCEPT ![j] = t[1]], t)

\* `n / d` on u64 (truncating), for d # 0 below 2^32
DivU64(n, d) == DivLimbs(n, d, 4, Zero64, <<0, 0, 0>>)

\* `a & b` on u8
RECURSIVE BitAnd(_, _)
BitAnd(a, b) ==
  IF a = 0 \/ b = 0 THEN 0
  ELSE (a % 2) * (b % 2) + 2 * BitAnd(a \div 2, b \div 2)

\* `a | b` on u8
RECURSIVE BitOr(_, _)
BitOr(a, b) ==
  IF a = 0 THEN b
  ELSE IF b = 0 THEN a
  ELSE (IF a % 2 = 1 \/ b % 2 = 1 THEN 1 ELSE 0)
         + 2 * BitOr(a \div 2, b \div 2)

----------------------------------------------------------------------------
(* The bus transport (embassy_rp::i2c) and the timer, as events of a trace.*)

\* values the status register 0x99 is read as
StatusSamples == {0, 7, 8, 104, 248, 255}

\* Error values a transaction can fail with
TransportErrors == {"Abort_NoAcknowledge", "Abort_ArbitrationLoss"}

Outcomes == {"Ok"} \cup TransportErrors

BusWrite(by, addr, bytes, outcome) ==
  [by |-> by, op |-> "write", addr |-> addr, out |-> bytes, resp |-> <<>>,
   result |-> outcome, ms |-> 0]

BusWriteRead(by, addr, bytes, outcome, v) ==
  [by |-> by, op |-> "write_read", addr |-> addr, out |-> bytes,
   resp |-> IF outcome = "Ok" THEN <<v>> ELSE <<>>,
   result |-> outcome, ms |-> 0]

TimerAfterMillis(by, n) ==
  [by |-> by, op |-> "delay", addr |-> 0, out |-> <<>>, resp |-> <<>>,
   result |-> "Ok", ms |-> n]

----------------------------------------------------------------------------
(* Pll5p49v                                                                *)

I2C_ADDRESS == 106

\* compile-time chip constants of write_config
EN_GLOBAL_SHUTDOWN == FALSE
SP == FALSE
EN_XTAL == FALSE
EN_CLKIN == TRUE
PRIMSRC == TRUE
TEST_MODE_VCO_BAND == FALSE
VCO_BAND == 13
CALIBRATION_START == TRUE
VCO_MONITOR_EN == FALSE

\* ((vco_fq_hz as u64) << 32) / (clock_fq_hz as u64)
feedback_divider(vco_fq_hz, clock_fq_hz) ==
  DivU64(ShlU64(AsU64(vco_fq_hz), 32), AsU64(clock_fq_hz))

\* variant: only the low 16 bits of the fraction are tested
sigma_delta_order_low16(fbd) ==
  IF fbd[1] = 0 THEN 0 ELSE 3

\* 3 unless the low 32 bits of the feedback divider are zero
sigma_delta_order(fbd) ==
  IF AsU32(fbd) = Zero32 THEN 0 ELSE 3

\* variant: the output divider scaled like the feedback divider
output_divider_shift32(vco_fq_hz, output_fq_hz) ==
  DivU64(ShlU64(AsU64(vco_fq_hz), 32), AsU64(output_fq_hz))

\* ((vco_fq_hz as u64) << 31) / (output_fq_hz as u64)
output_divider(vco_fq_hz, output_fq_hz) ==
  DivU64(ShlU64(AsU64(vco_fq_hz), 31), AsU64(output_fq_hz))

\* register 0x17: (feedback_divider >> 36) as u8
fbd_int_hi(fbd) == AsU8(ShrU64(fbd, 36))

\* variant: the order shifted by one bit instead of two
fbd_int_lo_shift1(fbd, order) ==
  BitAnd(AsU8(ShrU64(fbd, 28)), 240) + ((order * 2) % 256)

\* register 0x18: (((feedback_divider >> 28) as u8) & 0xF0) + (order << 2)
fbd_int_lo(fbd, order) ==
  BitAnd(AsU8(ShrU64(fbd, 28)), 240) + ((order * 4) % 256)

\* registers 0x19, 0x1A, 0x1B: (feedback_divider >> 24, 16, 8) as u8
fbd_frac(fbd, shift) == AsU8(ShrU64(fbd, shift))

\* registers 0x22 + 16k: ((od >> 30) as u8) & 0b11
od_frac_0(od) == BitAnd(AsU8(ShrU64(od, 30)), 3)

\* registers 0x23 + 16k: (od >> 22) as u8
od_frac_1(od) == AsU8(ShrU64(od, 22))

\* registers 0x24 + 16k: (od >> 14) as u8
od_frac_2(od) == AsU8(ShrU64(od, 14))

\* variant: the last fraction byte taken at the byte boundary
od_frac_3_shift8(od) == BitAnd(AsU8(ShrU64(od, 8)), 252)

\* registers 0x25 + 16k: ((od >> 6) as u8) & 0b11111100
od_frac_3(od) == BitAnd(AsU8(ShrU64(od, 6)), 252)

\* registers 0x2D + 16k: (od >> 36) as u8
od_int_hi(od) == AsU8(ShrU64(od, 36))

\* registers 0x2E + 16k: ((od >> 28) as u8) & 0xF0
od_int_lo(od) == BitAnd(AsU8(ShrU64(od, 28)), 240)

Flag(b, v) == IF b THEN v ELSE 0

\* the register image: start address, then registers 0x00 .. 0x69
prog_array(fbd, order, od1, od2, od3, od4) ==
  << 0,
     \* registers 0x00 - 0x16
     97, 15, 0, 0, 0, 0, 0, 0, 0, 255, 1, 192, 0, 182, 180, 146,
     0 + Flag(EN_GLOBAL_SHUTDOWN, 1) + Flag(SP, 2) + Flag(EN_CLKIN, 64)
       + Flag(EN_XTAL, 128),
     0 + Flag(TEST_MODE_VCO_BAND, 32) + VCO_BAND,
     129,
     128 + Flag(PRIMSRC, 2),
     0, 3, 132,
     \* registers 0x17 - 0x1B
     fbd_int_hi(fbd),
     fbd_int_lo(fbd, order),
     fbd_frac(fbd, 24),
     fbd_frac(fbd, 16),
     fbd_frac(fbd, 8),
     \* registers 0x1C - 0x21
     31 + Flag(CALIBRATION_START, 128),
     253 + Flag(VCO_MONITOR_EN, 2),
     200, 128, 0, 129,
     \* registers 0x22 - 0x31
     od_frac_0(od1), od_frac_1(od1), od_frac_2(od1), od_frac_3(od1),
     0, 0, 0, 0, 4, 0, 0,
     od_int_hi(od1), od_int_lo(od1),
     0, 0, 129,
     \* registers 0x32 - 0x41
     od_frac_0(od2), od_frac_1(od2), od_frac_2(od2), od_frac_3(od2),
     0, 0, 0, 0, 4, 0, 0,
     od_int_hi(od2), od_int_lo(od2),
     0, 0, 129,
     \* registers 0x42 - 0x51
     od_frac_0(od3), od_frac_1(od3), od_frac_2(od3), od_frac_3(od3),
     0, 0, 0, 0, 4, 0, 0,
     od_int_hi(od3), od_int_lo(od3),
     0, 0, 129,
     \* registers 0x52 - 0x5F
     od_frac_0(od4), od_frac_1(od4), od_frac_2(od4), od_frac_3(od4),
     0, 0, 0, 0, 4, 0, 0,
     od_int_hi(od4), od_int_lo(od4),
     0,
     \* registers 0x60 - 0x69
     59, 1, 59, 1, 59, 1, 59, 1, 255, 252 >>

NoLocals ==
  [computed |-> FALSE, feedback_divider |-> Zero64, sigma_delta_order |-> 0,
   od1 |-> Zero64, od2 |-> Zero64, od3 |-> Zero64, od4 |-> Zero64]

\* a u64 division by zero panics ("attempt to divide by zero")
divides_by_zero(clock_fq_hz, out1_fq_hz, out2_fq_hz, out3_fq_hz, out4_fq_hz) ==
  \/ clock_fq_hz = Zero32
  \/ out1_fq_hz = Zero32
  \/ out2_fq_hz = Zero32
  \/ out3_fq_hz = Zero32
  \/ out4_fq_hz = Zero32

\* the local variables of write_config once the dividers are computed
plan(clock_fq_hz, vco_fq_hz, out1_fq_hz, out2_fq_hz, out3_fq_hz, out4_fq_hz) ==
  LET fbd == feedback_divider(vco_fq_hz, clock_fq_hz)
  IN  [computed |-> TRUE,
       feedback_divider |-> fbd,
       sigma_delta_order |-> sigma_delta_order(fbd),
       od1 |-> output_divider(vco_fq_hz, out1_fq_hz),
       od2 |-> output_divider(vco_fq_hz, out2_fq_hz),
       od3 |-> output_divider(vco_fq_hz, out3_fq_hz),
       od4 |-> output_divider(vco_fq_hz, out4_fq_hz)]

\* variant: a failed write is attempted a second time
write_image_retry(p, outcome) ==
  LET w == BusWrite("write_config", I2C_ADDRESS,
                    prog_array(p.feedback_divider, p.sigma_delta_order,
                               p.od1, p.od2, p.od3, p.od4),
                    outcome)
  IN  [events |-> IF outcome = "Ok" THEN <<w>> ELSE <<w, w>>,
       result |-> outcome]

\* i2c.write_async(Self::I2C_ADDRESS, prog_array).await: one transaction,
\* whose outcome is the value of write_config
write_image(p, outcome) ==
  [events |-> << BusWrite("write_config", I2C_ADDRESS,
                          prog_array(p.feedback_divider, p.sigma_delta_order,
                                     p.od1, p.od2, p.od3, p.od4),
                          outcome) >>,
   result |-> outcome]

\* One call of write_config.  A zero divisor panics before the image is
\* built and nothing is returned; otherwise the image is written in one
\* transaction whose outcome is the value returned.
write_config(clock_fq_hz, vco_fq_hz, out1_fq_hz, out2_fq_hz, out3_fq_hz, out4_fq_hz, outcome) ==
  IF divides_by_zero(clock_fq_hz, out1_fq_hz, out2_fq_hz, out3_fq_hz,
                     out4_fq_hz)
  THEN [panicked |-> TRUE, events |-> <<>>, result |-> "None",
        locals |-> NoLocals]
  ELSE LET p == plan(clock_fq_hz, vco_fq_hz, out1_fq_hz, out2_fq_hz,
                     out3_fq_hz, out4_fq_hz)
           w == write_image(p, outcome)
       IN  [panicked |-> FALSE, events |-> w.events, result |-> w.result,
            locals |-> p]

\* calibrate_vco: payloads of the three writes to register 0x1C
clear_cal_bit(v) == <<28, BitAnd(v, 127)>>

set_cal_bit(v) == <<28, BitOr(v, 128)>>

\* variant: the last write leaves bit 7 as it was read
clear_cal_bit_again_unmasked(v) == <<28, v>>

clear_cal_bit_again(v) == <<28, BitAnd(v, 127)>>

\* variant: the error is noted but the sequence carries on
Try_carry_on(outcome, continue_at) ==
  [pc |-> continue_at, rc |-> IF outcome = "Ok" THEN "None" ELSE outcome]

\* the `?` after each transaction of calibrate_vco: an error is returned to
\* main at once, success continues at the next statement
Try(outcome, continue_at) ==
  IF outcome = "Ok"
  THEN [pc |-> continue_at, rc |-> "None"]
  ELSE [pc |-> "main_finish", rc |-> outcome]

\* where calibrate_vco continues after each successful write to 0x1C
after_clear_cal_bit == "cal_delay_1"

after_set_cal_bit == "cal_delay_2"

\* variant: the status read follows the last write at once
after_clear_cal_bit_again_no_delay == "cal_read_result"

after_clear_cal_bit_again == "cal_delay_3"

\* where main continues after write_config has returned
after_write_config(rc) == "cal_read_control"

----------------------------------------------------------------------------
(* main                                                                    *)

MainRequest ==
  [clock_fq_hz |-> Dec(0, 10, 000, 000),
   vco_fq_hz |-> Dec(2, 700, 000, 000),
   output1_fq_hz |-> Dec(0, 40, 000, 000),
   output2_fq_hz |-> Dec(0, 25, 000, 000),
   output3_fq_hz |-> Dec(0, 24, 000, 000),
   output4_fq_hz |-> Dec(0, 28, 800, 000)]

Init ==
  /\ pc = "write_config"
  /\ args = MainRequest
  /\ locals = NoLocals
  /\ trace = <<>>
  /\ rc_config = "None"
  /\ rc_cal = "None"
  /\ resp_buff = 0
  /\ vco_index = 0
  /\ led = "Low"
  /\ calls = 0

\* main: rc = pll.write_config(...).await, then the match that only logs
WriteConfig ==
  /\ pc = "write_config"
  /\ \E outcome \in Outcomes :
       \E r \in { write_config(args.clock_fq_hz, args.vco_fq_hz,
                               args.output1_fq_hz, args.output2_fq_hz,
                               args.output3_fq_hz, args.output4_fq_hz,
                               outcome) } :
           /\ pc' = IF r.panicked THEN "panicked"
                    ELSE after_write_config(r.result)
           /\ trace' = trace \o r.events
           /\ rc_config' = r.result
           /\ locals' = r.locals
  /\ calls' = calls + 1
  /\ UNCHANGED <<args, rc_cal, resp_buff, vco_index, led>>

\* calibrate_vco: write_read_async(0x6A, [0x1C], &mut resp_buff).await?
ReadControl ==
  /\ pc = "cal_read_control"
  /\ \E outcome \in Outcomes, v \in Byte :
       LET t == Try(outcome, "cal_clear_cal_bit")
       IN  /\ trace' = Append(trace, BusWriteRead("calibrate_vco",
                                       I2C_ADDRESS, <<28>>, outcome, v))
           /\ resp_buff' = IF outcome = "Ok" THEN v ELSE resp_buff
           /\ pc' = t.pc
           /\ rc_cal' = t.rc
  /\ UNCHANGED <<args, locals, rc_config, vco_index, led, calls>>

\* calibrate_vco: write_async(0x6A, [0x1c, resp_buff[0] & 0x7F]).await?
ClearCalBit ==
  /\ pc = "cal_clear_cal_bit"
  /\ \E outcome \in Outcomes :
       LET t == Try(outcome, after_clear_cal_bit)
       IN  /\ trace' = Append(trace, BusWrite("calibrate_vco", I2C_ADDRESS,
                                       clear_cal_bit(resp_buff), outcome))
           /\ pc' = t.pc
           /\ rc_cal' = t.rc
  /\ UNCHANGED <<args, locals, rc_config, resp_buff, vco_index, led, calls>>

\* calibrate_vco: write_async(0x6A, [0x1c, resp_buff[0] | 0x80]).await?
SetCalBit ==
  /\ pc = "cal_set_cal_bit"
  /\ \E outcome \in Outcomes :
       LET t == Try(outcome, after_set_cal_bit)
       IN  /\ trace' = Append(trace, BusWrite("calibrate_vco", I2C_ADDRESS,
                                       set_cal_bit(resp_buff), outcome))
           /\ pc' = t.pc
           /\ rc_cal' = t.rc
  /\ UNCHANGED <<args, locals, rc_config, resp_buff, vco_index, led, calls>>

\* calibrate_vco: write_async(0x6A, [0x1c, resp_buff[0] & 0x7F]).await?
ClearCalBitAgain ==
  /\ pc = "cal_clear_cal_bit_again"
  /\ \E outcome \in Outcomes :
       LET t == Try(outcome, after_clear_cal_bit_again)
       IN  /\ trace' = Append(trace, BusWrite("calibrate_vco", I2C_ADDRESS,
                                       clear_cal_bit_again(resp_buff),
                                       outcome))
           /\ pc' = t.pc
           /\ rc_cal' = t.rc
  /\ UNCHANGED <<args, locals, rc_config, resp_buff, vco_index, led, calls>>

\* calibrate_vco: the three Timer::after_millis(1).await
Delay ==
  /\ pc \in {"cal_delay_1", "cal_delay_2", "cal_delay_3"}
  /\ trace' = Append(trace, TimerAfterMillis("calibrate_vco", 1))
  /\ pc' = CASE pc = "cal_delay_1" -> "cal_set_cal_bit"
             [] pc = "cal_delay_2" -> "cal_clear_cal_bit_again"
             [] pc = "cal_delay_3" -> "cal_read_result"
  /\ UNCHANGED <<args, locals, rc_config, rc_cal, resp_buff, vco_index, led,
                 calls>>

\* calibrate_vco: write_read_async(0x6A, [0x99], &mut resp_buff).await?,
\* the VCO index resp_buff[0] >> 3 is logged, Ok(()) is returned
ReadResult ==
  /\ pc = "cal_read_result"
  /\ \E outcome \in Outcomes, v \in StatusSamples :
       /\ trace' = Append(trace, BusWriteRead("calibrate_vco", I2C_ADDRESS,
                                   <<153>>, outcome, v))
       /\ vco_index' = IF outcome = "Ok" THEN v \div 8 ELSE vco_index
       /\ rc_cal' = outcome
  /\ pc' = "main_finish"
  /\ UNCHANGED <<args, locals, rc_config, resp_buff, led, calls>>

\* main: the match on calibrate_vco's result only logs; led.set_high()
Finish ==
  /\ pc = "main_finish"
  /\ led' = "High"
  /\ pc' = "done"
  /\ UNCHANGED <<args, locals, trace, rc_config, rc_cal, resp_buff,
                 vco_index, calls>>

Next ==
  \/ WriteConfig
  \/ ReadControl
  \/ ClearCalBit
  \/ SetCalBit
  \/ ClearCalBitAgain
  \/ Delay
  \/ ReadResult
  \/ Finish

Spec == Init /\ [][Next]_vars

----------------------------------------------------------------------------
(* A caller of the driver: write_config applied to sampled requests.       *)

ClockSamples ==
  { Zero32, Dec(0, 10, 000, 000), Dec(0, 25, 000, 000), Dec(0, 0, 0, 3),
    Dec(4, 294, 967, 295) }

VcoSamples ==
  { Dec(2, 700, 000, 000), Dec(2, 705, 000, 000), Dec(4, 294, 967, 295),
    Dec(0, 0, 0, 1) }

OutputList ==
  << Dec(0, 40, 000, 000), Dec(0, 25, 000, 000), Dec(0, 24, 000, 000),
     Dec(0, 28, 800, 000), Dec(0, 7, 000, 000), Dec(0, 0, 0, 3),
     Dec(4, 294, 967, 295), Dec(0, 0, 0, 1), Dec(0, 33, 333, 333) >>

OutputAt(i) == OutputList[((i - 1) % NumOutputSamples) + 1]

\* four consecutive entries of the list, and main's outputs with one zeroed
OutputTuples ==
  { <<OutputAt(i), OutputAt(i + 1), OutputAt(i + 2), OutputAt(i + 3)>> :
      i \in 1 .. NumOutputSamples }
  \cup
  { [k \in 1 .. 4 |-> IF k = z THEN Zero32 ELSE OutputList[k]] :
      z \in 1 .. 4 }

Requests ==
  { [clock_fq_hz |-> c, vco_fq_hz |-> v, output1_fq_hz |-> o[1],
     output2_fq_hz |-> o[2], output3_fq_hz |-> o[3], output4_fq_hz |-> o[4]] :
      c \in ClockSamples, v \in VcoSamples, o \in OutputTuples }

InitDriver ==
  /\ pc = "caller"
  /\ args \in Requests
  /\ locals = NoLocals
  /\ trace = <<>>
  /\ rc_config = "None"
  /\ rc_cal = "None"
  /\ resp_buff = 0
  /\ vco_index = 0
  /\ led = "Low"
  /\ calls = 0

\* the caller awaits pll.write_config(request) and gets its result, unless
\* the call panics
CallWriteConfig ==
  /\ pc = "caller"
  /\ calls < MaxCalls
  /\ \E outcome \in Outcomes :
       \E r \in { write_config(args.clock_fq_hz, args.vco_fq_hz,
                               args.output1_fq_hz, args.output2_fq_hz,
                               args.output3_fq_hz, args.output4_fq_hz,
                               outcome) } :
           /\ pc' = IF r.panicked THEN "panicked" ELSE "caller"
           /\ trace' = trace \o r.events
           /\ rc_config' = r.result
           /\ locals' = r.locals
  /\ calls' = calls + 1
  /\ UNCHANGED <<args, rc_cal, resp_buff, vco_index, led>>

NextDriver == CallWriteConfig

SpecDriver == InitDriver /\ [][NextDriver]_vars

----------------------------------------------------------------------------
(* Properties of the boot flow (Spec).                                     *)

\* what calibrate_vco did, in order, and its bus transactions alone
CalTrace == SelectSeq(trace, LAMBDA e : e.by = "calibrate_vco")

CalBus == SelectSeq(CalTrace, LAMBDA e : e.op # "delay")

CalDelays == SelectSeq(CalTrace, LAMBDA e : e.op = "delay")

\* a transaction that selects register 0x1C or 0x99
IsCalibrationTransaction(e) ==
  /\ e.op \in {"write", "write_read"}
  /\ Len(e.out) >= 1
  /\ e.out[1] \in {28, 153}

\* C1: when all of its transactions succeed, calibrate_vco issues exactly
\* five transactions to device 0x6A: write-then-read of 0x1C giving v, writes
\* of [0x1C, v with bit 7 cleared], [0x1C, v with bit 7 set], [0x1C, v with
\* bit 7 cleared], and write-then-read of 0x99; each written payload keeps
\* the low 7 bits of v.
C1_CalibrationSequence ==
  (rc_cal = "Ok") =>
    /\ Len(CalBus) = 5
    /\ \A i \in 1 .. 5 : CalBus[i].addr = 106 /\ CalBus[i].result = "Ok"
    /\ CalBus[1].op = "write_read"
    /\ CalBus[1].out = <<28>>
    /\ Len(CalBus[1].resp) = 1
    /\ LET v == CalBus[1].resp[1]
       IN  /\ v = resp_buff
           /\ CalBus[2].op = "write" /\ CalBus[2].out = <<28, v % 128>>
           /\ CalBus[3].op = "write" /\ CalBus[3].out = <<28, (v % 128) + 128>>
           /\ CalBus[4].op = "write" /\ CalBus[4].out = <<28, v % 128>>
           /\ \A i \in 2 .. 4 : CalBus[i].out[2] % 128 = v % 128
    /\ CalBus[5].op = "write_read"
    /\ CalBus[5].out = <<153>>
    /\ Len(CalBus[5].resp) = 1

\* a complete successful calibration whose control byte had bit 7 set
C1_Witness ==
  /\ pc = "done"
  /\ rc_cal = "Ok"
  /\ resp_buff = 159
  /\ Len(CalBus) = 5

\* C2: once the configuration write has failed, no transaction selecting
\* register 0x1C or 0x99 is ever issued.
C2_NoCalibrationAfterFailedConfig ==
  (rc_config \in TransportErrors) =>
    \A i \in 1 .. Len(trace) : ~ IsCalibrationTransaction(trace[i])

\* C3: a failed transaction of calibrate_vco is the last thing it does: the
\* k-th transaction failing leaves exactly k transactions attempted, all
\* earlier ones successful, no delay after it, and its error as the result.
C3_FailFast ==
  /\ Len(CalBus) <= 5
  /\ \A k \in 1 .. Len(CalBus) :
       /\ CalBus[k].out[1] = IF k = 5 THEN 153 ELSE 28
       /\ (CalBus[k].result # "Ok") =>
            /\ k = Len(CalBus)
            /\ CalTrace[Len(CalTrace)] = CalBus[k]
            /\ \A j \in 1 .. k - 1 : CalBus[j].result = "Ok"
            /\ rc_cal = CalBus[k].result
            /\ pc \in {"main_finish", "done"}
  /\ (rc_cal \in TransportErrors) =>
       /\ Len(CalBus) >= 1
       /\ CalBus[Len(CalBus)].result = rc_cal

\* the fourth transaction failed, after two delays, and main has finished
C3_Witness ==
  /\ pc = "done"
  /\ rc_cal \in TransportErrors
  /\ Len(CalBus) = 4
  /\ Len(CalDelays) = 2

CalPattern ==
  << "write_read", "write", "delay", "write", "delay", "write", "delay",
     "write_read" >>

\* C10: calibrate_vco does read, write, delay, write, delay, write, delay,
\* read: every delay is 1 ms and directly follows a successful write to
\* 0x1C, the next transaction starts only after that delay, nothing follows
\* a failed transaction, and a successful run has exactly three delays.
C10_DelayAfterEachWrite ==
  LET n == Len(CalTrace)
  IN  /\ n <= 8
      /\ \A i \in 1 .. n : CalTrace[i].op = CalPattern[i]
      /\ \A i \in 1 .. n :
           (CalTrace[i].op = "delay") =>
             /\ CalTrace[i].ms = 1
             /\ i > 1
             /\ CalTrace[i - 1].op = "write"
             /\ CalTrace[i - 1].result = "Ok"
             /\ CalTrace[i - 1].out[1] = 28
      /\ \A i \in 1 .. n - 1 : CalTrace[i].result = "Ok"
      /\ (pc \in {"cal_set_cal_bit", "cal_clear_cal_bit_again",
                  "cal_read_result"}) =>
           (n >= 1 /\ CalTrace[n].op = "delay")
      /\ (rc_cal = "Ok") => (n = 8 /\ Len(CalDelays) = 3)

\* the third delay has elapsed and the status read has not started
C10_Witness ==
  /\ pc = "cal_read_result"
  /\ Len(CalDelays) = 3
  /\ Len(CalBus) = 4

----------------------------------------------------------------------------
(* Exact arithmetic on naturals as little-endian byte sequences, used to   *)
(* state the properties of the dividers independently of DivU64.           *)

Max(a, b) == IF a >= b THEN a ELSE b

Bytes(x) ==
  [i \in 1 .. 2 * Len(x) |->
     IF i % 2 = 1 THEN x[(i + 1) \div 2] % 256 ELSE x[i \div 2] \div 256]

BigDigit(a, i) == IF i <= Len(a) THEN a[i] ELSE 0

RECURSIVE BigAddFrom(_, _, _, _, _)
BigAddFrom(a, b, i, n, c) ==
  IF i > n THEN <<>>
  ELSE <<(BigDigit(a, i) + BigDigit(b, i) + c) % 256>>
         \o BigAddFrom(a, b, i + 1, n,
                       (BigDigit(a, i) + BigDigit(b, i) + c) \div 256)

BigAdd(a, b) == BigAddFrom(a, b, 1, Max(Len(a), Len(b)) + 1, 0)

RECURSIVE BigScaleFrom(_, _, _, _)
BigScaleFrom(a, k, i, c) ==
  IF i > Len(a) + 1 THEN <<>>
  ELSE <<(BigDigit(a, i) * k + c) % 256>>
         \o BigScaleFrom(a, k, i + 1, (BigDigit(a, i) * k + c) \div 256)

RECURSIVE BigMulFrom(_, _, _)
BigMulFrom(a, b, j) ==
  IF j > Len(b) THEN <<>>
  ELSE BigAdd(BigScaleFrom(a, b[j], 1, 0), <<0>> \o BigMulFrom(a, b, j + 1))

BigMul(a, b) == BigMulFrom(a, b, 1)

RECURSIVE BigSubFrom(_, _, _, _)
BigSubFrom(a, b, i, borrow) ==
  IF i > Len(a) THEN <<>>
  ELSE <<(BigDigit(a, i) - BigDigit(b, i) - borrow + 256) % 256>>
         \o BigSubFrom(a, b, i + 1,
                       IF BigDigit(a, i) - BigDigit(b, i) - borrow < 0
                       THEN 1 ELSE 0)

\* a - b for a >= b
BigSub(a, b) == BigSubFrom(a, b, 1, 0)

RECURSIVE BigLessFrom(_, _, _)
BigLessFrom(a, b, i) ==
  IF i = 0 THEN FALSE
  ELSE IF BigDigit(a, i) # BigDigit(b, i) THEN BigDigit(a, i) < BigDigit(b, i)
  ELSE BigLessFrom(a, b, i - 1)

BigLess(a, b) == BigLessFrom(a, b, Max(Len(a), Len(b)))

BigEq(a, b) ==
  \A i \in 1 .. Max(Len(a), Len(b)) : BigDigit(a, i) = BigDigit(b, i)

\* a * 256^k
BigShiftBytes(a, k) == [i \in 1 .. k |-> 0] \o a

\* q = floor(n / d), stated by multiplication: q * d <= n < q * d + d
IsFloorQuotient(q, n, d) ==
  /\ ~ BigLess(n, BigMul(q, d))
  /\ BigLess(n, BigAdd(BigMul(q, d), d))

----------------------------------------------------------------------------
(* Properties of write_config (SpecDriver).                                *)

HasZeroFrequency ==
  divides_by_zero(args.clock_fq_hz, args.output1_fq_hz, args.output2_fq_hz,
                  args.output3_fq_hz, args.output4_fq_hz)

OutputHz(i) ==
  CASE i = 1 -> args.output1_fq_hz
    [] i = 2 -> args.output2_fq_hz
    [] i = 3 -> args.output3_fq_hz
    [] i = 4 -> args.output4_fq_hz

OutputDivider(i) ==
  CASE i = 1 -> locals.od1
    [] i = 2 -> locals.od2
    [] i = 3 -> locals.od3
    [] i = 4 -> locals.od4

\* the value an image holds for register a
Reg(img, a) == img[a + 2]

ByteBit(b, j) == (b \div (2 ^ j)) % 2

BitU64(x, k) == (x[(k \div 16) + 1] \div (2 ^ (k % 16))) % 2

\* C4: a call with a zero reference or output frequency returns a
\* DomainError to its caller, without a panic and without a bus transaction.
C4_ZeroFrequencyIsDomainError ==
  (HasZeroFrequency /\ calls > 0) =>
    /\ pc # "panicked"
    /\ rc_config = "DomainError"
    /\ trace = <<>>

\* C5: the sigma-delta order is 0 exactly when vco_fq_hz is an integer
\* multiple of clock_fq_hz and 3 otherwise; 10 MHz and 2.7 GHz give the
\* divider 270 with fraction 0 and order 0.
C5_SigmaDeltaOrder ==
  locals.computed =>
    LET vco == Bytes(args.vco_fq_hz)
        ref == Bytes(args.clock_fq_hz)
        q == Bytes(DivU64(AsU64(args.vco_fq_hz), AsU64(args.clock_fq_hz)))
    IN  /\ IsFloorQuotient(q, vco, ref)
        /\ locals.sigma_delta_order \in {0, 3}
        /\ (locals.sigma_delta_order = 0) <=> BigEq(BigMul(q, ref), vco)
        /\ (/\ args.clock_fq_hz = Dec(0, 10, 000, 000)
            /\ args.vco_fq_hz = Dec(2, 700, 000, 000))
             => /\ locals.feedback_divider = <<0, 0, 270, 0>>
                /\ locals.sigma_delta_order = 0

\* a ratio that is not an integer although the low 16 fraction bits are zero
C5_Witness ==
  /\ locals.computed
  /\ locals.sigma_delta_order = 3
  /\ locals.feedback_divider[1] = 0
  /\ locals.feedback_divider[2] # 0

\* C6: the numerators vco << 32 and vco << 31 lose no bit, the feedback
\* divider is floor(vco * 2^32 / ref), its high half floor(vco / ref), its
\* low half floor((vco mod ref) * 2^32 / ref), and each output divider is
\* floor(vco * 2^31 / output).
C6_DividersAreTruncatedQuotients ==
  locals.computed =>
    LET vco == Bytes(args.vco_fq_hz)
        ref == Bytes(args.clock_fq_hz)
        fbd == locals.feedback_divider
        hi == Bytes(<<fbd[3], fbd[4]>>)
        lo == Bytes(<<fbd[1], fbd[2]>>)
        n32 == BigShiftBytes(vco, 4)
        n31 == BigMul(vco, <<0, 0, 0, 128>>)
    IN  /\ BigEq(Bytes(ShlU64(AsU64(args.vco_fq_hz), 32)), n32)
        /\ BigEq(Bytes(ShlU64(AsU64(args.vco_fq_hz), 31)), n31)
        /\ IsFloorQuotient(Bytes(fbd), n32, ref)
        /\ IsFloorQuotient(hi, vco, ref)
        /\ IsFloorQuotient(lo, BigShiftBytes(BigSub(vco, BigMul(hi, ref)), 4),
                           ref)
        /\ \A i \in 1 .. 4 :
             IsFloorQuotient(Bytes(OutputDivider(i)), n31, Bytes(OutputHz(i)))

\* inexact feedback and output ratios with a full-width vco frequency
C6_Witness ==
  /\ locals.computed
  /\ args.vco_fq_hz = Dec(4, 294, 967, 295)
  /\ locals.feedback_divider[1] # 0
  /\ locals.od1[1] # 0

\* C7: every call with non-zero frequencies issues exactly one transaction,
\* a write to 0x6A of 107 bytes starting with the register address 0x00 and
\* holding registers 0x00 .. 0x69 in order; calls with the same arguments
\* write the same bytes, and the outcome of the write is the value returned.
C7_OneImageWritePerCall ==
  (~ HasZeroFrequency) =>
    /\ Len(trace) = calls
    /\ \A i \in 1 .. Len(trace) :
         /\ trace[i].op = "write"
         /\ trace[i].addr = 106
         /\ Len(trace[i].out) = 107
         /\ \A k \in 1 .. 107 : trace[i].out[k] \in Byte
         /\ trace[i].out[1] = 0
         /\ Reg(trace[i].out, 0) = 97
         /\ Reg(trace[i].out, 16) = 64
         /\ Reg(trace[i].out, 17) = 13
         /\ Reg(trace[i].out, 19) = 130
         /\ Reg(trace[i].out, 28) = 159
         /\ Reg(trace[i].out, 29) = 253
         /\ Reg(trace[i].out, 96) = 59
         /\ Reg(trace[i].out, 105) = 252
         /\ trace[i].out = trace[1].out
    /\ (calls > 0) => rc_config = trace[Len(trace)].result

\* a failed configuration write followed by a successful second call
C7_Witness ==
  /\ ~ HasZeroFrequency
  /\ calls = 2
  /\ Len(trace) = 2
  /\ trace[1].result \in TransportErrors
  /\ trace[2].result = "Ok"
  /\ rc_config = "Ok"

\* the 64-bit value the six bytes of channel i decode to: the fraction bytes
\* at 0x22 .. 0x25 and the integer bytes at 0x2D, 0x2E, moved by 16 (i - 1)
DecodedOutputDivider(img, i) ==
  LET base == 16 * (i - 1)
      frac == (Reg(img, 34 + base) % 4) * 4194304
                + Reg(img, 35 + base) * 16384
                + Reg(img, 36 + base) * 64
                + (Reg(img, 37 + base) \div 4)
      int == Reg(img, 45 + base) * 16 + (Reg(img, 46 + base) \div 16)
  IN  <<(frac % 256) * 256, frac \div 256, int, 0>>

\* the six bytes hold nothing but the decoded fields
ChannelPadding(img, i) ==
  LET base == 16 * (i - 1)
  IN  /\ Reg(img, 34 + base) < 4
      /\ Reg(img, 37 + base) % 4 = 0
      /\ Reg(img, 46 + base) % 16 = 0
      /\ \A k \in {34, 35, 36, 37, 45, 46} : Reg(img, k + base) \in Byte

\* bits 8 .. 43 of a divider
StoredBits(od) == <<od[1] - (od[1] % 256), od[2], od[3] % 4096, 0>>

\* C8 as stated: the six bytes of each channel decode to the whole output
\* divider, integer and fraction.
C8_PackedWithoutLoss ==
  locals.computed =>
    \A e \in 1 .. Len(trace) : \A i \in 1 .. 4 :
      /\ ChannelPadding(trace[e].out, i)
      /\ DecodedOutputDivider(trace[e].out, i) = OutputDivider(i)

\* C8 as amended: the six bytes of channel i, at a stride of 0x10 registers,
\* decode to bits 8 .. 43 of that channel's output divider and hold nothing
\* else; the divider is recovered whole when its other bits are zero, as for
\* 40 MHz from 2.7 GHz, whose fraction is not zero.
C8_PacksBits8To43 ==
  locals.computed =>
    \A e \in 1 .. Len(trace) : \A i \in 1 .. 4 :
      /\ ChannelPadding(trace[e].out, i)
      /\ DecodedOutputDivider(trace[e].out, i) = StoredBits(OutputDivider(i))
      /\ \A k \in 8 .. 43 :
           BitU64(DecodedOutputDivider(trace[e].out, i), k)
             = BitU64(OutputDivider(i), k)
      /\ (/\ OutputHz(i) = Dec(0, 40, 000, 000)
          /\ args.vco_fq_hz = Dec(2, 700, 000, 000))
           => /\ DecodedOutputDivider(trace[e].out, i) = OutputDivider(i)
              /\ OutputDivider(i) = <<0, 49152, 33, 0>>

\* one request with a divider that has low bits, one above 2^44, and the
\* 40 MHz channel
C8_Witness ==
  /\ locals.computed
  /\ Len(trace) >= 1
  /\ args.vco_fq_hz = Dec(2, 700, 000, 000)
  /\ \E i \in 1 .. 4 : OutputDivider(i)[1] % 256 # 0
  /\ \E i \in 1 .. 4 : OutputDivider(i)[3] >= 4096
  /\ \E i \in 1 .. 4 : OutputHz(i) = Dec(0, 40, 000, 000)

\* C9: register 0x17 holds bits 36-43 of the feedback divider, register 0x18
\* bits 32-35 in its high nibble, the sigma-delta order in bits 2-3 and zeros
\* in bits 0-1, within 8 bits; registers 0x19, 0x1A, 0x1B hold bits 24-31,
\* 16-23 and 8-15; 10 MHz and 2.7 GHz give 0x10, 0xE0, 0x00, 0x00, 0x00.
C9_FeedbackDividerRegisters ==
  locals.computed =>
    \A e \in 1 .. Len(trace) :
      LET img == trace[e].out
          fbd == locals.feedback_divider
      IN  /\ \A a \in 23 .. 27 : Reg(img, a) \in Byte
          /\ \A j \in 0 .. 7 :
               ByteBit(Reg(img, 23), j) = BitU64(fbd, 36 + j)
          /\ \A j \in 4 .. 7 :
               ByteBit(Reg(img, 24), j) = BitU64(fbd, 28 + j)
          /\ (Reg(img, 24) \div 4) % 4 = locals.sigma_delta_order
          /\ Reg(img, 24) % 4 = 0
          /\ \A j \in 0 .. 7 :
               /\ ByteBit(Reg(img, 25), j) = BitU64(fbd, 24 + j)
               /\ ByteBit(Reg(img, 26), j) = BitU64(fbd, 16 + j)
               /\ ByteBit(Reg(img, 27), j) = BitU64(fbd, 8 + j)
          /\ (/\ args.clock_fq_hz = Dec(0, 10, 000, 000)
              /\ args.vco_fq_hz = Dec(2, 700, 000, 000))
               => <<Reg(img, 23), Reg(img, 24), Reg(img, 25), Reg(img, 26),
                    Reg(img, 27)>> = <<16, 224, 0, 0, 0>>

\* a fractional divider whose five register bytes are all non-zero
C9_Witness ==
  /\ locals.computed
  /\ Len(trace) >= 1
  /\ locals.sigma_delta_order = 3
  /\ \A a \in 23 .. 27 : Reg(trace[1].out, a) # 0
  /\ Reg(trace[1].out, 24) >= 16

====
